---- MODULE Spec2Model ----
(***************************************************************************)
(* Model of the AI analysis backend: the Flask routes of backend/app.py    *)
(* (login, logout, check-auth, analyze-image, analyze-document) and the    *)
(* document extraction pipeline of backend/document_processor.py.          *)
(*                                                                         *)
(* Python strings that carry document content are kept run-length encoded  *)
(* (a sequence of runs [c, n]: character c repeated n times, adjacent runs *)
(* of different characters), so that len(), slicing, strip() and           *)
(* concatenation are computed on texts of the real size (30000 characters  *)
(* and more).  File names are sequences of characters, URLs sequences of   *)
(* lexical tokens.  Python values are records [t, v, i]: type name, string *)
(* payload, integer payload.                                               *)
(***************************************************************************)
EXTENDS Integers, Sequences, FiniteSets, TLC

VARIABLES
    session,               \* Flask session of each client: dict key -> value
    google_drive_service,  \* DocumentProcessor.google_drive_service
    drive_log,             \* what setup_google_drive logged at construction
    request,               \* the last HTTP request received
    response,              \* the response given to it: [status, body]
    calls,                 \* functions and remote calls made while serving it
    loginHist,             \* per client: a valid login happened, no logout since
    document_data,         \* argument of a direct process_document call
    world,                 \* what the collaborators answered during that call
    outcome,               \* what that call produced
    pc                     \* position of the direct caller

vars == <<session, google_drive_service, drive_log, request, response, calls, loginHist,
          document_data, world, outcome, pc>>

-----------------------------------------------------------------------------
(* Bounds of the model *)

\* longest text drawn as an input, in runs
MaxRuns == 2
\* most pages of a PDF / paragraphs of a DOCX
MaxPages == 2

-----------------------------------------------------------------------------
(* Python values *)

PyStr(s) == [t |-> "str", v |-> s, i |-> 0]
PyNone == [t |-> "NoneType", v |-> <<>>, i |-> 0]
PyInt(k) == [t |-> "int", v |-> <<>>, i |-> k]

\* bool(x)
Truthy(x) ==
    CASE x.t = "str" -> x.v # <<>>
      [] x.t = "int" -> x.i # 0
      [] OTHER -> FALSE

-----------------------------------------------------------------------------
(* Run-length encoded strings *)

Run(ch, k) == [c |-> ch, n |-> k]

\* the characters str.strip() removes
IsSpace(ch) == ch \in {" ", "\n", "\t"}

RECURSIVE StrLen(_)
\* len(s)
StrLen(s) == IF s = <<>> THEN 0 ELSE Head(s).n + StrLen(Tail(s))

\* s + t
Concat(s, t) ==
    IF s = <<>> THEN t
    ELSE IF t = <<>> THEN s
    ELSE IF s[Len(s)].c = t[1].c
         THEN SubSeq(s, 1, Len(s) - 1)
                \o <<Run(t[1].c, s[Len(s)].n + t[1].n)>> \o Tail(t)
         ELSE s \o t

RECURSIVE Take(_, _)
\* s[:k]
Take(s, k) ==
    IF k <= 0 \/ s = <<>> THEN <<>>
    ELSE IF Head(s).n <= k THEN <<Head(s)>> \o Take(Tail(s), k - Head(s).n)
    ELSE <<Run(Head(s).c, k)>>

RECURSIVE LStrip(_)
LStrip(s) ==
    IF s = <<>> THEN <<>>
    ELSE IF IsSpace(Head(s).c) THEN LStrip(Tail(s)) ELSE s

RECURSIVE RStrip(_)
RStrip(s) ==
    IF s = <<>> THEN <<>>
    ELSE IF IsSpace(s[Len(s)].c) THEN RStrip(SubSeq(s, 1, Len(s) - 1)) ELSE s

\* s.strip()
Strip(s) == RStrip(LStrip(s))

\* "\n"
Newline == <<Run("\n", 1)>>

-----------------------------------------------------------------------------
(* Collaborators' answers (the world outside the process) *)

\* Bytes of a file, by what the parsers make of them: a PDF with the given
\* page texts, a DOCX with the given paragraph texts, or neither.
Bytes(fmt, parts) == [fmt |-> fmt, parts |-> parts]

Garbage == Bytes("garbage", <<>>)

MimeDoc == "application/vnd.google-apps.document"
MimeSheet == "application/vnd.google-apps.spreadsheet"
MimePdf == "application/pdf"
MimeDocx == "application/vnd.openxmlformats-officedocument.wordprocessingml.document"
MimeOther == "image/png"

-----------------------------------------------------------------------------
(* document_processor.py: the extractors *)

RECURSIVE JoinLines(_)
\* text = ""; for part in parts: text += part + "\n"
JoinLines(parts) ==
    IF parts = <<>> THEN <<>>
    ELSE Concat(Concat(Head(parts), Newline), JoinLines(Tail(parts)))

\* extract_pdf_text: "" when the parser raises
extract_pdf_text(bytes) ==
    IF bytes.fmt # "pdf" THEN <<>> ELSE Strip(JoinLines(bytes.parts))

\* extract_docx_text: "" when the parser raises
extract_docx_text(bytes) ==
    IF bytes.fmt # "docx" THEN <<>> ELSE Strip(JoinLines(bytes.parts))

RECURSIVE Collapse(_)
\* every run of spaces and line breaks becomes one space
Collapse(s) ==
    IF s = <<>> THEN <<>>
    ELSE IF Head(s).c \in {" ", "\n"}
         THEN Concat(<<Run(" ", 1)>>,
                     IF Tail(s) # <<>> /\ Head(Tail(s)).c \in {" ", "\n"}
                     THEN Tail(Collapse(Tail(s)))
                     ELSE Collapse(Tail(s)))
         ELSE <<Head(s)>> \o Collapse(Tail(s))

\* the whitespace clean-up of extract_url_content: lines stripped, split on
\* two spaces, fragments stripped, empty ones dropped, joined by one space
CleanText(s) == Strip(Collapse(s))

\* extract_url_content: "" when the fetch or the parse raises
extract_url_content(url, w) ==
    IF w.web.raises THEN <<>> ELSE CleanText(w.web.text)

-----------------------------------------------------------------------------
(* document_processor.py: Google Drive *)

\* the credentials found at construction, and whether build() works
CredStates == {"absent", "valid", "expired_refreshable", "expired", "unreadable"}

\* setup_google_drive, after __init__ set the service to None
setup_google_drive(cred, buildOk, refreshOk) ==
    CASE cred = "unreadable" -> "None"
      [] cred \in {"absent", "expired"} -> "None"
      [] cred = "expired_refreshable" /\ ~refreshOk -> "None"
      [] OTHER -> IF buildOk THEN "service" ELSE "None"

\* the message setup_google_drive logs: the warning of the early return, the
\* warning of the except clause, or the info after build()
LogNoCredentials == "Google Drive credentials not available. Google Drive links will not work."
LogSetupFailed == "Failed to setup Google Drive API: "
LogInitialized == "Google Drive API service initialized successfully"

setup_google_drive_log(cred, buildOk, refreshOk) ==
    CASE cred = "unreadable" -> LogSetupFailed
      [] cred \in {"absent", "expired"} -> LogNoCredentials
      [] cred = "expired_refreshable" /\ ~refreshOk -> LogSetupFailed
      [] OTHER -> IF buildOk THEN LogInitialized ELSE LogSetupFailed

\* the characters [a-zA-Z0-9_-]+ matches at the start of a URL token
IdPrefix(tok) ==
    CASE tok = "ABC123" -> "ABC123"
      [] tok = "x_Y-9" -> "x_Y-9"
      [] tok = "example.com" -> "example"
      [] tok = "drive.google.com" -> "drive"
      [] tok = "docs.google.com" -> "docs"
      [] tok = "page" -> "page"
      [] OTHER -> ""

\* re.search(pattern + "([a-zA-Z0-9_-]+)", url): the group of the leftmost match
Search(pats, url) ==
    LET hits == {k \in 1..(Len(url) - 1) : url[k] \in pats /\ IdPrefix(url[k + 1]) # ""}
    IN IF hits = {} THEN ""
       ELSE IdPrefix(url[(CHOOSE k \in hits : \A j \in hits : k <= j) + 1])

\* extract_google_drive_id: the id, or "" for None
extract_google_drive_idAnyHost(url) ==
    IF Search({"/file/d/"}, url) # "" THEN Search({"/file/d/"}, url)
    ELSE IF Search({"?id=", "&id="}, url) # "" THEN Search({"?id=", "&id="}, url)
    ELSE IF Search({"/document/d/"}, url) # "" THEN Search({"/document/d/"}, url)
    ELSE Search({"/spreadsheets/d/"}, url)
extract_google_drive_id(url) ==
    IF \E k \in 1..Len(url) : url[k] = "drive.google.com"
    THEN IF Search({"/file/d/"}, url) # "" THEN Search({"/file/d/"}, url)
         ELSE IF Search({"?id=", "&id="}, url) # "" THEN Search({"?id=", "&id="}, url)
         ELSE IF Search({"/document/d/"}, url) # "" THEN Search({"/document/d/"}, url)
         ELSE Search({"/spreadsheets/d/"}, url)
    ELSE ""

\* get_google_drive_content: [value, calls]; value is None or a str
get_google_drive_contentNoCheck(file_id, svc, w) ==
    LET d == w.drive
        export == [value |-> IF d.export.raises THEN PyNone ELSE PyStr(d.export.text),
                   calls |-> <<"files.get", "files.export">>]
    IN
    IF d.meta = "raise" THEN [value |-> PyNone, calls |-> <<"files.get">>]
    ELSE IF d.meta = MimeDoc THEN export
    ELSE IF d.meta = MimeSheet THEN export
    ELSE IF d.meta = MimePdf
         THEN [value |-> IF d.media.raises THEN PyNone
                         ELSE PyStr(extract_pdf_text(d.media.bytes)),
               calls |-> <<"files.get", "files.get_media">>
                         \o (IF d.media.raises THEN <<>> ELSE <<"extract_pdf_text">>)]
    ELSE IF d.meta = MimeDocx
         THEN [value |-> IF d.media.raises THEN PyNone
                         ELSE PyStr(extract_docx_text(d.media.bytes)),
               calls |-> <<"files.get", "files.get_media">>
                         \o (IF d.media.raises THEN <<>> ELSE <<"extract_docx_text">>)]
    ELSE export
get_google_drive_content(file_id, svc, w) ==
    LET d == w.drive
        export == [value |-> IF d.export.raises THEN PyNone ELSE PyStr(d.export.text),
                   calls |-> <<"files.get", "files.export">>]
    IN
    IF svc = "None" THEN [value |-> PyNone, calls |-> <<>>]
    ELSE IF d.meta = "raise" THEN [value |-> PyNone, calls |-> <<"files.get">>]
    ELSE IF d.meta = MimeDoc THEN export
    ELSE IF d.meta = MimeSheet THEN export
    ELSE IF d.meta = MimePdf
         THEN [value |-> IF d.media.raises THEN PyNone
                         ELSE PyStr(extract_pdf_text(d.media.bytes)),
               calls |-> <<"files.get", "files.get_media">>
                         \o (IF d.media.raises THEN <<>> ELSE <<"extract_pdf_text">>)]
    ELSE IF d.meta = MimeDocx
         THEN [value |-> IF d.media.raises THEN PyNone
                         ELSE PyStr(extract_docx_text(d.media.bytes)),
               calls |-> <<"files.get", "files.get_media">>
                         \o (IF d.media.raises THEN <<>> ELSE <<"extract_docx_text">>)]
    ELSE export

-----------------------------------------------------------------------------
(* document_processor.py: process_document *)

\* the length beyond which content is cut
MaxContentLength == 30000

\* one run per character of a literal without doubled characters
Lit(chars) == [k \in 1..Len(chars) |-> Run(chars[k], 1)]

\* "\n\n[Content truncated due to length...]"
TruncationMarker ==
    <<Run("\n", 2)>>
    \o Lit(<<"[", "C", "o", "n", "t", "e", "n", "t", " ",
             "t", "r", "u", "n", "c", "a", "t", "e", "d", " ",
             "d", "u", "e", " ", "t", "o", " ",
             "l", "e", "n", "g", "t", "h">>)
    \o <<Run(".", 3), Run("]", 1)>>

UpperCase == <<"A", "B", "C", "D", "E", "F", "G", "H", "I", "J", "K", "L", "M",
               "N", "O", "P", "Q", "R", "S", "T", "U", "V", "W", "X", "Y", "Z">>
LowerCase == <<"a", "b", "c", "d", "e", "f", "g", "h", "i", "j", "k", "l", "m",
               "n", "o", "p", "q", "r", "s", "t", "u", "v", "w", "x", "y", "z">>

\* str.lower() on a sequence of characters
Lower(name) ==
    [k \in 1..Len(name) |->
        IF \E j \in 1..26 : UpperCase[j] = name[k]
        THEN LowerCase[CHOOSE j \in 1..26 : UpperCase[j] = name[k]]
        ELSE name[k]]

\* p.rfind(ch), counting from 1; 0 when absent
RFind(p, ch) ==
    LET at == {k \in 1..Len(p) : p[k] = ch}
    IN IF at = {} THEN 0 ELSE CHOOSE k \in at : \A j \in at : j <= k

\* os.path.splitext(p)[1]: from the last dot of the last path component,
\* unless only dots precede it there
SplitExt(p) ==
    LET sepIndex == RFind(p, "/")
        dotIndex == RFind(p, ".")
    IN IF dotIndex > sepIndex
          /\ \E k \in (sepIndex + 1)..(dotIndex - 1) : p[k] # "."
       THEN SubSeq(p, dotIndex, Len(p))
       ELSE <<>>

\* file_extension = os.path.splitext(file.filename)[1].lower()
FileExtensionNoLower(filename) == SplitExt(filename)
FileExtension(filename) == Lower(SplitExt(filename))

\* url.strip() on a sequence of tokens
UrlStrip(url) ==
    LET keep == {k \in 1..Len(url) : url[k] # " "}
    IN IF keep = {} THEN <<>>
       ELSE SubSeq(url, CHOOSE k \in keep : \A j \in keep : k <= j,
                        CHOOSE k \in keep : \A j \in keep : j <= k)

\* which branch of the if / elif chain is taken
SelectSourceUrlFirst(data) ==
    IF "url" \in DOMAIN data THEN "url"
    ELSE IF "file" \in DOMAIN data THEN "file"
    ELSE IF "text" \in DOMAIN data THEN "text"
    ELSE "none"
SelectSource(data) ==
    IF "file" \in DOMAIN data THEN "file"
    ELSE IF "url" \in DOMAIN data THEN "url"
    ELSE IF "text" \in DOMAIN data THEN "text"
    ELSE "none"

\* not content or len(content.strip()) == 0, for content None or a str
NoContentNoStrip(content) == ~Truthy(content)
NoContent(content) == ~Truthy(content) \/ StrLen(Strip(content.v)) = 0

\* the truncation of over-long content
TruncateNoMarker(content) ==
    IF StrLen(content) > MaxContentLength
    THEN Take(content, MaxContentLength)
    ELSE content
Truncate(content) ==
    IF StrLen(content) > MaxContentLength
    THEN Concat(Take(content, MaxContentLength), TruncationMarker)
    ELSE content

Failure(msg, arg) == [success |-> FALSE, error |-> [msg |-> msg, arg |-> arg]]

\* what a run of the try block ends in: a returned dict or a raised exception,
\* with the extractor that ran, the content it gave and the calls made
Returned(res, ran, content, cs) ==
    [kind |-> "return", result |-> res, ran |-> ran, extracted |-> content, calls |-> cs]
Raised(exc, ran, content, cs) ==
    [kind |-> "raise", result |-> Failure("", <<exc>>), ran |-> ran,
     extracted |-> content, calls |-> cs]

\* lines 254-269: the emptiness check, the truncation, the success dict
Finish(content, source_type, ran, cs) ==
    IF Truthy(content) /\ content.t # "str"
    THEN Raised("AttributeError", ran, content, cs)
    ELSE IF NoContent(content)
    THEN Returned(Failure("No content could be extracted from the document.", <<>>),
                  ran, content, cs)
    ELSE LET cut == Truncate(content.v)
         IN Returned([success |-> TRUE, content |-> cut, source_type |-> source_type,
                      content_length |-> StrLen(cut)],
                     ran, content, cs)

\* the file branch
FileBranch(file) ==
    LET file_extension == FileExtension(file.filename)
    IN IF file_extension = <<".", "p", "d", "f">>
       THEN Finish(PyStr(extract_pdf_text(file.bytes)), "PDF", "pdf",
                   <<"file.read", "extract_pdf_text">>)
       ELSE IF file_extension \in {<<".", "d", "o", "c", "x">>, <<".", "d", "o", "c">>}
       THEN Finish(PyStr(extract_docx_text(file.bytes)), "DOCX", "docx",
                   <<"file.read", "extract_docx_text">>)
       ELSE Returned(Failure("Unsupported file type: ", file_extension),
                     "none", PyNone, <<"file.read">>)

\* the url branch
UrlBranch(value, svc, w) ==
    IF value.t # "str" THEN Raised("AttributeError", "none", PyNone, <<>>)
    ELSE
    LET url == UrlStrip(value.v)
        drive_id == extract_google_drive_id(url)
    IN IF drive_id # ""
       THEN LET got == get_google_drive_content(drive_id, svc, w)
                cs == <<"extract_google_drive_id", "get_google_drive_content">> \o got.calls
            IN IF ~Truthy(got.value)
               THEN Returned(Failure("Could not access Google Drive file. Please ensure the file is publicly accessible.", <<>>),
                             "drive", got.value, cs)
               ELSE Finish(got.value, "Google Drive", "drive", cs)
       ELSE LET content == PyStr(extract_url_content(url, w))
                cs == <<"extract_google_drive_id", "extract_url_content", "requests.get">>
            IN IF ~Truthy(content)
               THEN Returned(Failure("Could not extract content from URL. Please check if the URL is accessible.", <<>>),
                             "web", content, cs)
               ELSE Finish(content, "URL", "web", cs)

\* the body of the try block
process_document_try(data, svc, w) ==
    LET source == SelectSource(data)
    IN CASE source = "file" -> FileBranch(data.file)
         [] source = "url" -> UrlBranch(data.url, svc, w)
         [] source = "text" -> Finish(data.text, "Text", "text", <<>>)
         [] OTHER ->
              Returned(Failure("No document data provided. Please provide a file, URL, or text.", <<>>),
                       "none", PyNone, <<>>)

\* the except clause: every exception becomes a failure dict
HandlerPropagates(run) == run
Handler(run) ==
    IF run.kind = "raise"
    THEN [run EXCEPT !.kind = "return",
                     !.result = Failure("Error processing document: ", run.result.error.arg)]
    ELSE run

\* process_document
process_document(data, svc, w) == Handler(process_document_try(data, svc, w))

-----------------------------------------------------------------------------
(* Inputs *)

TextChars == {"a", " "}
RunLens == {1, MaxContentLength - 1, MaxContentLength}

\* no two adjacent runs of the same character
Canonical(s) == \A k \in 1..(Len(s) - 1) : s[k].c # s[k + 1].c

\* the texts of at most MaxRuns runs
Texts ==
    {s \in UNION {[1..k -> {Run(ch, n) : ch \in TextChars, n \in RunLens}] : k \in 0..MaxRuns} :
        Canonical(s)}

\* texts of pages and paragraphs
PageTexts ==
    {<<>>, <<Run(" ", 1)>>, <<Run("a", 1), Run(" ", 1)>>, <<Run("a", MaxContentLength)>>}

FileBytes ==
    {Garbage} \cup
    {Bytes(fmt, parts) : fmt \in {"pdf", "docx"},
                         parts \in UNION {[1..k -> PageTexts] : k \in 0..MaxPages}}

Filenames ==
    {<<"a", ".", "p", "d", "f">>,
     <<"a", ".", "P", "d", "F">>,
     <<"a", ".", "d", "o", "c", "x">>,
     <<"a", ".", "D", "O", "C">>,
     <<"a", ".", "t", "x", "t">>,
     <<"a", ".", "p", "d", "f", ".", "t", "x", "t">>,
     <<".", "p", "d", "f">>,
     <<"a", ".", "d", "/", "p", "d", "f">>,
     <<"a">>}

Files == [filename : Filenames, bytes : FileBytes]

Urls ==
    {<<"https://", "example.com", "/", "page">>,
     <<"https://", "drive.google.com", "/file/d/", "ABC123", "/view">>,
     <<" ", "https://", "drive.google.com", "/open", "?id=", "x_Y-9", " ">>,
     <<"https://", "drive.google.com", "/drive/my-drive">>,
     <<"https://", "drive.google.com", "/file/d/", "/view">>,
     <<"https://", "docs.google.com", "/document/d/", "ABC123", "/edit">>,
     <<"https://", "example.com", "/", "?u=", "drive.google.com", "/spreadsheets/d/", "ABC123">>,
     <<" ">>}

UrlValues == {PyStr(u) : u \in Urls} \cup {PyNone}

TextValues == {PyStr(t) : t \in Texts} \cup {PyNone, PyInt(0), PyInt(5)}

\* values combined in dicts of several keys
SomeFiles ==
    {[filename |-> <<"a", ".", "p", "d", "f">>,
      bytes |-> Bytes("pdf", <<<<Run("a", 1), Run(" ", 1)>>>>)],
     [filename |-> <<"a", ".", "t", "x", "t">>, bytes |-> Garbage]}
SomeUrls ==
    {PyStr(<<"https://", "example.com", "/", "page">>),
     PyStr(<<"https://", "drive.google.com", "/file/d/", "ABC123", "/view">>)}
SomeTexts == {PyStr(<<Run("a", 1)>>), PyStr(<<>>)}

\* the dicts process_document is called with
DocInputs ==
    {<<>>}
    \cup {[file |-> f] : f \in Files}
    \cup {[url |-> u] : u \in UrlValues}
    \cup {[text |-> t] : t \in TextValues}
    \cup {[file |-> f, url |-> u] : f \in SomeFiles, u \in SomeUrls}
    \cup {[file |-> f, text |-> t] : f \in SomeFiles, t \in SomeTexts}
    \cup {[url |-> u, text |-> t] : u \in SomeUrls, t \in SomeTexts}
    \cup {[file |-> f, url |-> u, text |-> t] :
            f \in SomeFiles, u \in SomeUrls, t \in SomeTexts}

DefaultWeb == [raises |-> FALSE, text |-> <<Run("a", 1)>>]
DefaultExport == [raises |-> FALSE, text |-> <<Run("a", 1)>>]
DefaultMedia == [raises |-> FALSE, bytes |-> Garbage]
DefaultDrive == [meta |-> MimeDoc, export |-> DefaultExport, media |-> DefaultMedia]
DefaultWorld == [web |-> DefaultWeb, drive |-> DefaultDrive, ai |-> "ok"]

\* answers of the HTTP fetch: an error, or a page with the given text
WebAnswers ==
    {[raises |-> TRUE, text |-> <<>>]} \cup {[raises |-> FALSE, text |-> t] : t \in Texts}

Exports ==
    {[raises |-> TRUE, text |-> <<>>]} \cup {[raises |-> FALSE, text |-> t] : t \in PageTexts}

Medias ==
    {[raises |-> TRUE, bytes |-> Garbage], DefaultMedia}
    \cup {[raises |-> FALSE, bytes |-> Bytes(fmt, <<t>>)] :
            fmt \in {"pdf", "docx"}, t \in PageTexts}

\* answers of the Drive API
DriveAnswers ==
    {[meta |-> "raise", export |-> DefaultExport, media |-> DefaultMedia]}
    \cup {[meta |-> m, export |-> e, media |-> DefaultMedia] :
            m \in {MimeDoc, MimeSheet, MimeOther}, e \in Exports}
    \cup {[meta |-> m, export |-> DefaultExport, media |-> md] :
            m \in {MimePdf, MimeDocx}, md \in Medias}

\* one collaborator's answer varies at a time
Worlds ==
    {[web |-> wa, drive |-> DefaultDrive, ai |-> "ok"] : wa \in WebAnswers}
    \cup {[web |-> DefaultWeb, drive |-> d, ai |-> "ok"] : d \in DriveAnswers}

\* the web and the Drive answer about a URL: without one their answer is moot
WorldsFor(data) == IF "url" \in DOMAIN data THEN Worlds ELSE {DefaultWorld}

-----------------------------------------------------------------------------
(* State *)

NoOutcome ==
    [kind |-> "none", result |-> Failure("", <<>>), ran |-> "none",
     extracted |-> PyNone, calls |-> <<>>]

Sessions == {"s1", "s2"}

NoRequest == [route |-> "none", sid |-> "s1"]
NoResponse == [status |-> 0, body |-> <<>>]

\* DocumentProcessor.__init__
InitProcessor ==
    \E cred \in CredStates, buildOk \in BOOLEAN, refreshOk \in BOOLEAN :
        /\ google_drive_service = setup_google_drive(cred, buildOk, refreshOk)
        /\ drive_log = setup_google_drive_log(cred, buildOk, refreshOk)

InitHttp ==
    /\ session = [s \in Sessions |-> <<>>]
    /\ loginHist = [s \in Sessions |-> FALSE]
    /\ request = NoRequest
    /\ response = NoResponse
    /\ calls = <<>>

-----------------------------------------------------------------------------
(* app.py: JSON bodies and credentials *)

\* a parsed JSON body: its Python type, its fields when a dict, the keys that
\* `key in data` finds (dict keys, list elements, substrings), and bool(data)
JNull == [t |-> "NoneType", f |-> <<>>, has |-> {}, truthy |-> FALSE]
JInt == [t |-> "int", f |-> <<>>, has |-> {}, truthy |-> TRUE]
JObj(f) == [t |-> "dict", f |-> f, has |-> DOMAIN f, truthy |-> DOMAIN f # {}]
JList(items) == [t |-> "list", f |-> <<>>, has |-> items, truthy |-> items # {}]
JStr(subs) == [t |-> "str", f |-> <<>>, has |-> subs, truthy |-> TRUE]

\* request.get_json(): the parsed body, or an HTTP error raised on a body
\* that is not JSON
Parsed(d) == [raises |-> FALSE, data |-> d]
Unparsable == [raises |-> TRUE, data |-> JNull]

\* values of the username and password fields
CStr(x) == [t |-> "str", s |-> x]
CList == [t |-> "list", s |-> ""]
CNull == [t |-> "NoneType", s |-> ""]

DUMMY_USERS == [admin |-> [password |-> "password123", role |-> "admin"]]

Resp(status, body) == [status |-> status, body |-> body]

ServerError(exc) ==
    Resp(500, [success |-> FALSE, error |-> [msg |-> "Server error: ", arg |-> <<exc>>]])

BadRequest(msg) == Resp(400, [success |-> FALSE, error |-> [msg |-> msg, arg |-> <<>>]])

-----------------------------------------------------------------------------
(* app.py: authentication *)

\* session.get('logged_in')
LoggedIn(sess) == "logged_in" \in DOMAIN sess /\ sess.logged_in

\* login_required: whether the wrapped handler runs
login_requiredOff(sess) == TRUE
login_required(sess) == LoggedIn(sess)

Unauthenticated == Resp(401, [error |-> "Authentication required"])

\* the session after a login with the credentials of `username`
loginSets(sess, username) ==
    LET new == [logged_in |-> TRUE, username |-> username,
                role |-> DUMMY_USERS[username].role]
    IN [k \in DOMAIN sess \cup DOMAIN new |-> IF k \in DOMAIN new THEN new[k] ELSE sess[k]]

\* login: [resp, sess]
login(json, sess) ==
    IF json.raises THEN [resp |-> ServerError("HTTPException"), sess |-> sess]
    ELSE
    LET data == json.data
    IN IF ~data.truthy
       THEN [resp |-> BadRequest("Username and password are required"), sess |-> sess]
       ELSE IF data.t \notin {"dict", "list", "str"}
       THEN [resp |-> ServerError("TypeError"), sess |-> sess]
       ELSE IF "username" \notin data.has \/ "password" \notin data.has
       THEN [resp |-> BadRequest("Username and password are required"), sess |-> sess]
       ELSE IF data.t # "dict"
       THEN [resp |-> ServerError("TypeError"), sess |-> sess]
       ELSE
       LET username == data.f.username
           password == data.f.password
       IN IF username.t = "list"
          THEN [resp |-> ServerError("TypeError"), sess |-> sess]
          ELSE IF /\ username.t = "str" /\ username.s \in DOMAIN DUMMY_USERS
                  /\ password.t = "str"
                  /\ DUMMY_USERS[username.s].password = password.s
          THEN [resp |-> Resp(200, [success |-> TRUE, message |-> "Login successful",
                                    user |-> [username |-> username.s,
                                              role |-> DUMMY_USERS[username.s].role]]),
                sess |-> loginSets(sess, username.s)]
          ELSE [resp |-> Resp(401, [success |-> FALSE,
                                    error |-> [msg |-> "Invalid credentials", arg |-> <<>>]]),
                sess |-> sess]

\* logout: session.clear()
logoutKeeps(sess) == sess
logout(sess) == <<>>

\* check_auth
check_auth(sess) ==
    IF LoggedIn(sess)
    THEN Resp(200, [success |-> TRUE, authenticated |-> TRUE,
                    user |-> [username |-> sess.username, role |-> sess.role]])
    ELSE Resp(200, [success |-> TRUE, authenticated |-> FALSE])

-----------------------------------------------------------------------------
(* app.py: analysis *)

\* analyze_image: the decoding of the image, then the model call
analyze_image(image, w) ==
    IF image.t # "str" \/ ~image.decodable
    THEN [result |-> [success |-> FALSE,
                      error |-> [msg |-> "Failed to analyze image: ", arg |-> <<"decode">>]],
          calls |-> <<"analyze_image">>]
    ELSE IF w.ai = "raise"
    THEN [result |-> [success |-> FALSE,
                      error |-> [msg |-> "Failed to analyze image: ", arg |-> <<"model">>]],
          calls |-> <<"analyze_image", "model.generate_content">>]
    ELSE [result |-> [success |-> TRUE, description |-> "response.text",
                      model_used |-> "Gemini 2.0 Flash"],
          calls |-> <<"analyze_image", "model.generate_content">>]

\* analyze_document: the model call on the extracted content
analyze_documentCapped(document_content, source_type, w) ==
    IF w.ai = "raise"
    THEN [result |-> [success |-> FALSE,
                      error |-> [msg |-> "Failed to analyze document: ", arg |-> <<"model">>]],
          calls |-> <<"analyze_document", "model.generate_content">>]
    ELSE [result |-> [success |-> TRUE, summary |-> "response.text",
                      model_used |-> "Gemini 2.0 Flash", source_type |-> source_type,
                      content_length |-> IF StrLen(document_content) > MaxContentLength
                                         THEN MaxContentLength
                                         ELSE StrLen(document_content)],
          calls |-> <<"analyze_document", "model.generate_content">>]
analyze_document(document_content, source_type, w) ==
    IF w.ai = "raise"
    THEN [result |-> [success |-> FALSE,
                      error |-> [msg |-> "Failed to analyze document: ", arg |-> <<"model">>]],
          calls |-> <<"analyze_document", "model.generate_content">>]
    ELSE [result |-> [success |-> TRUE, summary |-> "response.text",
                      model_used |-> "Gemini 2.0 Flash", source_type |-> source_type,
                      content_length |-> StrLen(document_content)],
          calls |-> <<"analyze_document", "model.generate_content">>]

\* what a handler did: the response, the calls, and the process_document call
Served(resp, cs, data, out) == [resp |-> resp, calls |-> cs, data |-> data, out |-> out]

\* analyze_image_endpoint, behind login_required
analyze_image_endpoint(req, sess, w) ==
    IF ~login_required(sess) THEN Served(Unauthenticated, <<>>, <<>>, NoOutcome)
    ELSE
    LET run(image) ==
            LET a == analyze_image(image, w)
            IN Served(Resp(IF a.result.success THEN 200 ELSE 500, a.result),
                      a.calls, <<>>, NoOutcome)
        quit(resp) == Served(resp, <<>>, <<>>, NoOutcome)
    IN CASE req.kind = "file" ->
              IF req.file.filename = <<>>
              THEN quit(BadRequest("No image file selected"))
              ELSE run([t |-> "str", prefix |-> TRUE, decodable |-> req.file.decodable])
         [] req.kind = "json" ->
              IF req.json.raises THEN quit(ServerError("HTTPException"))
              ELSE LET data == req.json.data
                   IN IF ~data.truthy THEN quit(BadRequest("No image data provided"))
                      ELSE IF data.t \notin {"dict", "list", "str"}
                      THEN quit(ServerError("TypeError"))
                      ELSE IF "image" \notin data.has
                      THEN quit(BadRequest("No image data provided"))
                      ELSE IF data.t # "dict" THEN quit(ServerError("TypeError"))
                      ELSE IF data.f.image.t # "str" THEN quit(ServerError("AttributeError"))
                      ELSE IF ~data.f.image.prefix
                      THEN quit(BadRequest("Invalid image format. Please provide a base64 encoded image."))
                      ELSE run(data.f.image)
         [] OTHER ->
              quit(BadRequest("Invalid request format. Please provide a file upload or JSON data."))

\* if not result['success']
ExtractionFailedIgnored(result) == FALSE
ExtractionFailed(result) == ~result.success

\* lines 296-328: extraction, the check of its result, the analysis
ExtractAndAnalyze(data, svc, w) ==
    LET out == process_document(data, svc, w)
        cs == <<"process_document">> \o out.calls
    IN IF out.kind = "raise" THEN Served(ServerError("Exception"), cs, data, out)
       ELSE IF ExtractionFailed(out.result)
       THEN Served(Resp(400, out.result), cs, data, out)
       ELSE IF "content" \notin DOMAIN out.result
       THEN Served(ServerError("KeyError"), cs, data, out)
       ELSE LET a == analyze_document(out.result.content, out.result.source_type, w)
            IN Served(Resp(IF a.result.success THEN 200 ELSE 500, a.result),
                      cs \o a.calls, data, out)

\* lines 285-317: what the request asks to process: a dict for
\* process_document, or the response that ends the request at once
DocumentOf(req) ==
    CASE req.kind = "file" ->
           IF req.file.filename = <<>>
           THEN [ok |-> FALSE, resp |-> BadRequest("No file selected")]
           ELSE [ok |-> TRUE, data |-> [file |-> req.file]]
      [] req.kind = "json" ->
           IF req.json.raises THEN [ok |-> FALSE, resp |-> ServerError("HTTPException")]
           ELSE LET data == req.json.data
                IN IF data.t \notin {"dict", "list", "str"}
                   THEN [ok |-> FALSE, resp |-> ServerError("TypeError")]
                   ELSE IF "url" \in data.has
                   THEN IF data.t # "dict"
                        THEN [ok |-> FALSE, resp |-> ServerError("TypeError")]
                        ELSE [ok |-> TRUE, data |-> [url |-> data.f.url]]
                   ELSE IF "text" \in data.has
                   THEN IF data.t # "dict"
                        THEN [ok |-> FALSE, resp |-> ServerError("TypeError")]
                        ELSE [ok |-> TRUE, data |-> [text |-> data.f.text]]
                   ELSE [ok |-> FALSE,
                         resp |-> BadRequest("No document data provided. Please provide a file, URL, or text.")]
      [] OTHER ->
           [ok |-> FALSE,
            resp |-> BadRequest("Invalid request format. Please provide a file upload or JSON data.")]

\* analyze_document_endpoint, behind login_required
analyze_document_endpoint(req, sess, svc, w) ==
    IF ~login_required(sess) THEN Served(Unauthenticated, <<>>, <<>>, NoOutcome)
    ELSE LET doc == DocumentOf(req)
         IN IF doc.ok THEN ExtractAndAnalyze(doc.data, svc, w)
            ELSE Served(doc.resp, <<>>, <<>>, NoOutcome)

-----------------------------------------------------------------------------
(* HTTP requests *)

LoginBodies ==
    {Unparsable, Parsed(JNull), Parsed(JInt), Parsed(JObj(<<>>)),
     Parsed(JList({"username", "password"})), Parsed(JStr({"username", "password"})),
     Parsed(JObj([username |-> CStr("admin")])),
     Parsed(JObj([password |-> CStr("password123")]))}
    \cup {Parsed(JObj([username |-> u, password |-> p])) :
            u \in {CStr("admin"), CStr("bob"), CList, CNull},
            p \in {CStr("password123"), CStr("wrong"), CNull}}

ImageValues ==
    {[t |-> "str", prefix |-> TRUE, decodable |-> TRUE],
     [t |-> "str", prefix |-> TRUE, decodable |-> FALSE],
     [t |-> "str", prefix |-> FALSE, decodable |-> FALSE],
     [t |-> "int", prefix |-> FALSE, decodable |-> FALSE]}

ImageRequests ==
    {[kind |-> "file", file |-> [filename |-> fn, decodable |-> d]] :
        fn \in {<<>>, <<"a", ".", "p", "n", "g">>}, d \in BOOLEAN}
    \cup {[kind |-> "json", json |-> j] :
            j \in {Unparsable, Parsed(JNull), Parsed(JInt), Parsed(JObj(<<>>)),
                   Parsed(JList({"image"}))}
                  \cup {Parsed(JObj([image |-> v])) : v \in ImageValues}}
    \cup {[kind |-> "other"]}

HttpFiles ==
    {[filename |-> <<>>, bytes |-> Garbage],
     [filename |-> <<"a", ".", "p", "d", "f">>,
      bytes |-> Bytes("pdf", <<<<Run("a", MaxContentLength)>>, <<Run("a", 1), Run(" ", 1)>>>>)],
     [filename |-> <<"a", ".", "p", "d", "f">>, bytes |-> Garbage],
     [filename |-> <<"a", ".", "D", "O", "C">>, bytes |-> Bytes("docx", <<<<Run("a", 1)>>>>)],
     [filename |-> <<"a", ".", "t", "x", "t">>, bytes |-> Garbage]}

HttpUrls ==
    {PyStr(<<"https://", "example.com", "/", "page">>),
     PyStr(<<"https://", "drive.google.com", "/file/d/", "ABC123", "/view">>),
     PyNone}

HttpTexts ==
    {PyStr(<<>>), PyStr(<<Run(" ", 1)>>), PyStr(<<Run("a", 1)>>),
     PyStr(<<Run("a", MaxContentLength)>>),
     PyStr(<<Run("a", MaxContentLength), Run(" ", 1)>>),
     PyInt(5)}

DocumentRequests ==
    {[kind |-> "file", file |-> f] : f \in HttpFiles}
    \cup {[kind |-> "json", json |-> j] :
            j \in {Unparsable, Parsed(JNull), Parsed(JInt), Parsed(JObj(<<>>)),
                   Parsed(JList({"url"})), Parsed(JList({})), Parsed(JStr({"text"})),
                   Parsed(JObj([other |-> PyNone])),
                   Parsed(JObj([url |-> PyStr(<<"https://", "example.com", "/", "page">>),
                                text |-> PyStr(<<Run("a", 1)>>)]))}
                  \cup {Parsed(JObj([url |-> u])) : u \in HttpUrls}
                  \cup {Parsed(JObj([text |-> t])) : t \in HttpTexts}}
    \cup {[kind |-> "other"]}

\* the collaborators' answers while one request is served
HttpWorlds ==
    {[web |-> wa, drive |-> DefaultDrive, ai |-> a] :
        wa \in {DefaultWeb, [raises |-> TRUE, text |-> <<>>]}, a \in {"ok", "raise"}}
    \cup {[web |-> DefaultWeb, ai |-> a,
           drive |-> [meta |-> MimeDoc, media |-> DefaultMedia,
                      export |-> [raises |-> FALSE, text |-> <<Run(" ", 1)>>]]] :
            a \in {"ok", "raise"}}

\* the web and the Drive answer about the URL of the request, if it has one
HttpWorldsFor(req) ==
    IF req.kind = "json" /\ "url" \in req.json.data.has THEN HttpWorlds
    ELSE {w \in HttpWorlds : w.web = DefaultWeb /\ w.drive = DefaultDrive}

-----------------------------------------------------------------------------
(* The HTTP service *)

Init ==
    /\ InitHttp
    /\ InitProcessor
    /\ document_data = <<>>
    /\ world = DefaultWorld
    /\ outcome = NoOutcome
    /\ pc = "serving"

\* POST /api/login
Login ==
    \E sid \in Sessions, json \in LoginBodies :
        LET r == login(json, session[sid])
        IN /\ request' = [route |-> "login", sid |-> sid, json |-> json]
           /\ response' = r.resp
           /\ session' = [session EXCEPT ![sid] = r.sess]
           /\ loginHist' = [loginHist EXCEPT ![sid] =
                 IF /\ ~json.raises /\ json.data.t = "dict"
                    /\ {"username", "password"} \subseteq DOMAIN json.data.f
                    /\ json.data.f.username = CStr("admin")
                    /\ json.data.f.password = CStr("password123")
                 THEN TRUE ELSE @]
           /\ calls' = <<>>
           /\ document_data' = <<>>
           /\ outcome' = NoOutcome
           /\ world' = DefaultWorld
           /\ UNCHANGED <<google_drive_service, drive_log, pc>>

\* POST /api/logout
Logout ==
    \E sid \in Sessions :
        /\ request' = [route |-> "logout", sid |-> sid]
        /\ response' = Resp(200, [success |-> TRUE, message |-> "Logout successful"])
        /\ session' = [session EXCEPT ![sid] = logout(session[sid])]
        /\ loginHist' = [loginHist EXCEPT ![sid] = FALSE]
        /\ calls' = <<>>
        /\ document_data' = <<>>
        /\ outcome' = NoOutcome
        /\ world' = DefaultWorld
        /\ UNCHANGED <<google_drive_service, drive_log, pc>>

\* GET /api/check-auth
CheckAuth ==
    \E sid \in Sessions :
        /\ request' = [route |-> "check-auth", sid |-> sid]
        /\ response' = check_auth(session[sid])
        /\ calls' = <<>>
        /\ document_data' = <<>>
        /\ outcome' = NoOutcome
        /\ world' = DefaultWorld
        /\ UNCHANGED <<session, loginHist, google_drive_service, drive_log, pc>>

\* POST /api/analyze-image
AnalyzeImage ==
    \E sid \in Sessions, req \in ImageRequests, a \in {"ok", "raise"} :
        LET w == [DefaultWorld EXCEPT !.ai = a]
            r == analyze_image_endpoint(req, session[sid], w)
        IN /\ request' = [route |-> "analyze-image", sid |-> sid, req |-> req]
           /\ response' = r.resp
           /\ calls' = r.calls
           /\ document_data' = r.data
           /\ outcome' = r.out
           /\ world' = w
           /\ UNCHANGED <<session, loginHist, google_drive_service, drive_log, pc>>

\* POST /api/analyze-document
AnalyzeDocument ==
    \E sid \in Sessions, req \in DocumentRequests :
      \E w \in HttpWorldsFor(req) :
        LET r == analyze_document_endpoint(req, session[sid], google_drive_service, w)
        IN /\ request' = [route |-> "analyze-document", sid |-> sid, req |-> req]
           /\ response' = r.resp
           /\ calls' = r.calls
           /\ document_data' = r.data
           /\ outcome' = r.out
           /\ world' = w
           /\ UNCHANGED <<session, loginHist, google_drive_service, drive_log, pc>>

Next == Login \/ Logout \/ CheckAuth \/ AnalyzeImage \/ AnalyzeDocument

Spec == Init /\ [][Next]_vars

-----------------------------------------------------------------------------
(* Direct calls of DocumentProcessor.process_document *)

InitPD ==
    /\ InitHttp
    /\ InitProcessor
    /\ document_data \in DocInputs
    /\ world = DefaultWorld
    /\ outcome = NoOutcome
    /\ pc = "start"

ProcessDocument ==
    /\ pc = "start"
    /\ \E w \in WorldsFor(document_data) :
          /\ world' = w
          /\ outcome' = process_document(document_data, google_drive_service, w)
    /\ pc' = "done"
    /\ UNCHANGED <<session, google_drive_service, drive_log, request, response, calls,
                   loginHist, document_data>>

NextPD == ProcessDocument

SpecPD == InitPD /\ [][NextPD]_vars

-----------------------------------------------------------------------------
(* Properties of process_document, under SpecPD *)

Done == pc = "done"

\* a call of the given name was made
Called(name) == \E k \in 1..Len(outcome.calls) : outcome.calls[k] = name

RECURSIVE Drop(_, _)
\* s[k:]
Drop(s, k) ==
    IF k <= 0 \/ s = <<>> THEN s
    ELSE IF Head(s).n <= k THEN Drop(Tail(s), k - Head(s).n)
    ELSE <<Run(Head(s).c, Head(s).n - k)>> \o Tail(s)

\* C4: in a success result, content is the extracted text unchanged when that
\* has at most 30000 characters (content_length its length); otherwise content
\* is its first 30000 characters followed by the truncation marker, and
\* content_length is 30000 plus the marker's length.
C4_Truncation ==
    Done /\ outcome.result.success =>
        LET raw == outcome.extracted.v
            res == outcome.result
        IN IF StrLen(raw) <= 30000
           THEN res.content = raw /\ res.content_length = StrLen(raw)
           ELSE /\ Take(res.content, 30000) = Take(raw, 30000)
                /\ StrLen(Take(res.content, 30000)) = 30000
                /\ Drop(res.content, 30000) = TruncationMarker
                /\ res.content_length = 30000 + StrLen(TruncationMarker)

C4_Witness ==
    /\ Done /\ outcome.result.success
    /\ StrLen(outcome.extracted.v) > 30000
    /\ outcome.result.content_length = 30038

\* C6: the source is chosen in the order file, url, text, none. With a file
\* key nothing of the url path is called and the result is the one the file
\* alone gives; with url and no file the result is the one the url alone
\* gives; with text alone no extractor is called; with no key the result is
\* the failure 'No document data provided' and nothing is called.
C6_Priority ==
    Done =>
        LET keys == DOMAIN document_data
        IN /\ "file" \in keys =>
                /\ Called("file.read")
                /\ ~Called("extract_google_drive_id") /\ ~Called("extract_url_content")
                /\ ~Called("requests.get") /\ ~Called("get_google_drive_content")
                /\ outcome.ran \in {"pdf", "docx", "none"}
                /\ outcome = process_document([file |-> document_data.file],
                                              google_drive_service, world)
           /\ "file" \notin keys /\ "url" \in keys =>
                /\ ~Called("file.read")
                /\ ~Called("extract_pdf_text") \/ outcome.ran = "drive"
                /\ outcome.ran \in {"web", "drive", "none"}
                /\ outcome = process_document([url |-> document_data.url],
                                              google_drive_service, world)
           /\ keys = {"text"} =>
                /\ outcome.calls = <<>>
                /\ outcome.ran = "text"
                /\ outcome.extracted = document_data.text
           /\ keys \cap {"file", "url", "text"} = {} =>
                /\ outcome.calls = <<>>
                /\ outcome.result =
                     Failure("No document data provided. Please provide a file, URL, or text.", <<>>)

C6_Witness ==
    /\ Done
    /\ DOMAIN document_data = {"file", "url", "text"}
    /\ outcome.result.success
    /\ outcome.result.source_type = "PDF"

\* C7: on the file path the lower-cased extension alone chooses the extractor:
\* '.pdf' calls only the PDF extractor (source_type PDF), '.docx' and '.doc'
\* only the DOCX extractor (source_type DOCX), any other extension, or none,
\* fails at once with an error naming the extension and no extractor called.
C7_ExtensionDispatch ==
    Done /\ "file" \in DOMAIN document_data =>
        LET ext == Lower(SplitExt(document_data.file.filename))
            res == outcome.result
        IN CASE ext = <<".", "p", "d", "f">> ->
                  /\ outcome.calls = <<"file.read", "extract_pdf_text">>
                  /\ res.success => res.source_type = "PDF"
             [] ext \in {<<".", "d", "o", "c", "x">>, <<".", "d", "o", "c">>} ->
                  /\ outcome.calls = <<"file.read", "extract_docx_text">>
                  /\ res.success => res.source_type = "DOCX"
             [] OTHER ->
                  /\ outcome.calls = <<"file.read">>
                  /\ res = Failure("Unsupported file type: ", ext)

C7_Witness ==
    /\ Done
    /\ "file" \in DOMAIN document_data
    /\ document_data.file.filename = <<"a", ".", "P", "d", "F">>
    /\ outcome.result.success
    /\ outcome.result.source_type = "PDF"

\* the extracted content is none, empty or only whitespace
Blank(content) == ~Truthy(content) \/ (content.t = "str" /\ Strip(content.v) = <<>>)

NoContentError == Failure("No content could be extracted from the document.", <<>>)

\* C8 as stated: on every path where an extractor ran, blank content gives
\* the failure 'No content could be extracted from the document.'
C8_Original ==
    Done /\ outcome.ran # "none" /\ Blank(outcome.extracted) =>
        outcome.result = NoContentError

\* C8 as amended: on every path where an extractor ran, blank content gives
\* success=false; the error is 'No content could be extracted from the
\* document.', except that content which is empty (or none) on a URL path
\* gives that path's own error: 'Could not extract content from URL...' for a
\* generic URL, 'Could not access Google Drive file...' for a Drive URL.
C8_BlankContentFails ==
    Done /\ outcome.ran # "none" /\ Blank(outcome.extracted) =>
        /\ outcome.kind = "return"
        /\ ~outcome.result.success
        /\ outcome.result =
             IF outcome.ran = "web" /\ ~Truthy(outcome.extracted)
             THEN Failure("Could not extract content from URL. Please check if the URL is accessible.", <<>>)
             ELSE IF outcome.ran = "drive" /\ ~Truthy(outcome.extracted)
             THEN Failure("Could not access Google Drive file. Please ensure the file is publicly accessible.", <<>>)
             ELSE NoContentError

C8_Witness ==
    /\ Done
    /\ outcome.ran = "drive"
    /\ Truthy(outcome.extracted) /\ Blank(outcome.extracted)
    /\ outcome.result = NoContentError

\* C9: process_document never lets an exception out: it returns a dict that
\* is either success with content, source_type and content_length and no
\* error, or a failure with an error and no content.
C9_NeverRaises ==
    Done =>
        /\ outcome.kind = "return"
        /\ IF outcome.result.success
           THEN DOMAIN outcome.result = {"success", "content", "source_type", "content_length"}
           ELSE /\ DOMAIN outcome.result = {"success", "error"}
                /\ outcome.result.error.msg # ""

C9_Witness ==
    /\ Done
    /\ ~outcome.result.success
    /\ outcome.result.error = [msg |-> "Error processing document: ", arg |-> <<"AttributeError">>]

-----------------------------------------------------------------------------
(* Properties of the HTTP service, under Spec *)

\* a call of the given name was made while the last request was served
Invoked(name) == \E k \in 1..Len(calls) : calls[k] = name

AnalyzeRoutes == {"analyze-image", "analyze-document"}

\* C1: a request to analyze-image or analyze-document from a session without
\* the logged_in flag is answered 401, and neither process_document nor
\* analyze_image nor analyze_document (nor the model) is called for it.
C1_AuthGate ==
    [][request'.route \in AnalyzeRoutes /\ ~LoggedIn(session[request'.sid]) =>
          /\ response'.status = 401
          /\ calls' = <<>>
          /\ outcome' = NoOutcome]_vars

C1_Witness ==
    /\ request.route = "analyze-document"
    /\ request.req.kind = "json" /\ "text" \in request.req.json.data.has
    /\ ~LoggedIn(session[request.sid])
    /\ response.status = 401
    /\ calls = <<>>

\* the body of a login request names valid credentials
ValidLogin(req) ==
    /\ ~req.json.raises
    /\ req.json.data.t = "dict"
    /\ {"username", "password"} \subseteq DOMAIN req.json.data.f
    /\ req.json.data.f.username.t = "str" /\ req.json.data.f.password.t = "str"
    /\ req.json.data.f.username.s \in DOMAIN DUMMY_USERS
    /\ DUMMY_USERS[req.json.data.f.username.s].password = req.json.data.f.password.s

\* C2: a session is logged in exactly when a login with valid credentials
\* happened on it and no logout since (check-auth reports just that); a
\* logout clears the session; a login answered 400 or 401 leaves logged_in,
\* username and role as they were.
C2_SessionTracksLogin ==
    /\ [](\A s \in Sessions : LoggedIn(session[s]) <=> loginHist[s])
    /\ [](request.route = "check-auth" =>
             response.body.authenticated = loginHist[request.sid])
    /\ [][/\ request'.route = "logout" => session'[request'.sid] = <<>>
          /\ request'.route = "login" /\ response'.status \in {400, 401} =>
                session' = session
          /\ request'.route = "login" /\ ValidLogin(request') =>
                /\ response'.status = 200
                /\ LoggedIn(session'[request'.sid])]_vars

C2_Witness ==
    /\ request.route = "logout"
    /\ session[request.sid] = <<>>
    /\ \E s \in Sessions : LoggedIn(session[s]) /\ session[s].username = "admin"

\* the body of a login request has the given field
HasField(req, k) ==
    ~req.json.raises /\ req.json.data.t = "dict" /\ k \in DOMAIN req.json.data.f

\* C3: login answers 400 whenever the body lacks a username or a password
\* field, 401 whenever both are present but match no entry of the credential
\* table, and 200 only when they match; the session is marked logged in only
\* in the 200 case.
C3_LoginStatus ==
    [][request'.route = "login" =>
          /\ ~HasField(request', "username") \/ ~HasField(request', "password") =>
                response'.status = 400
          /\ HasField(request', "username") /\ HasField(request', "password")
             /\ ~ValidLogin(request') =>
                response'.status = 401
          /\ response'.status = 200 => ValidLogin(request')
          /\ session'[request'.sid] # session[request'.sid] =>
                response'.status = 200]_vars

\* C5: content_length is the length of the content that extraction produced
\* and handed to the analysis, in the result of process_document and in the
\* 200 response of analyze-document.
C5_ContentLength ==
    request.route = "analyze-document" /\ outcome.kind = "return"
    /\ outcome.result.success =>
        /\ outcome.result.content_length = StrLen(outcome.result.content)
        /\ response.status = 200 =>
              /\ response.body.content_length = StrLen(outcome.result.content)
              /\ response.body.content_length = outcome.result.content_length

C5_Witness ==
    /\ request.route = "analyze-document"
    /\ response.status = 200
    /\ StrLen(outcome.extracted.v) > 30000
    /\ response.body.content_length = 30038

\* C10: in an authenticated analyze-document request the analysis is called
\* only after extraction returned success: a failed extraction is answered 400
\* without any call of the AI service; a successful extraction followed by a
\* failing AI call is answered 500; 200 is answered only when both succeeded.
C10_AnalysisAfterExtraction ==
    request.route = "analyze-document" =>
        /\ outcome.kind = "return" /\ ~outcome.result.success =>
              /\ response.status = 400
              /\ ~Invoked("analyze_document") /\ ~Invoked("model.generate_content")
        /\ outcome.kind = "return" /\ outcome.result.success /\ world.ai = "raise" =>
              response.status = 500
        /\ Invoked("analyze_document") \/ Invoked("model.generate_content") =>
              /\ outcome.kind = "return" /\ outcome.result.success
              /\ calls[1] = "process_document"
              /\ \A k \in 1..Len(calls) :
                    calls[k] \in {"analyze_document", "model.generate_content"} =>
                       k > 1 + Len(outcome.calls)
        /\ response.status = 200 =>
              /\ outcome.kind = "return" /\ outcome.result.success
              /\ world.ai = "ok"
              /\ Invoked("analyze_document")

C10_Witness ==
    /\ request.route = "analyze-document"
    /\ outcome.kind = "return" /\ ~outcome.result.success
    /\ response.status = 400
    /\ calls[1] = "process_document"

\* the request carries bad input: an uploaded file with an empty filename, a
\* body that is neither a file nor JSON, or a JSON value, object or not, with
\* neither a url nor a text field
BadInput(req) ==
    \/ req.kind = "file" /\ req.file.filename = <<>>
    \/ req.kind = "other"
    \/ /\ req.kind = "json" /\ ~req.json.raises
       /\ ~(req.json.data.t = "dict" /\ "url" \in DOMAIN req.json.data.f)
       /\ ~(req.json.data.t = "dict" /\ "text" \in DOMAIN req.json.data.f)

\* C11: an authenticated analyze-document request with bad input is answered
\* 400, and neither extraction nor the AI analysis is called for it.
C11_BadInputRejected ==
    [][(/\ request'.route = "analyze-document"
        /\ LoggedIn(session[request'.sid])
        /\ BadInput(request'.req)) =>
          /\ response'.status = 400
          /\ calls' = <<>>
          /\ outcome' = NoOutcome]_vars

-----------------------------------------------------------------------------
(* Properties of the url path and of Drive *)

\* the URL holds drive.google.com and one of the four id patterns followed
\* by at least one id character
HasDriveId(url) ==
    /\ \E k \in 1..Len(url) : url[k] = "drive.google.com"
    /\ \E k \in 1..(Len(url) - 1) :
          /\ url[k] \in {"/file/d/", "?id=", "&id=", "/document/d/", "/spreadsheets/d/"}
          /\ IdPrefix(url[k + 1]) # ""

\* how many calls of the given name were made
CallCount(name) == Cardinality({k \in 1..Len(outcome.calls) : outcome.calls[k] = name})

DriveCalls == {"get_google_drive_content", "files.get", "files.export", "files.get_media"}
WebCalls == {"extract_url_content", "requests.get"}

DriveError ==
    Failure("Could not access Google Drive file. Please ensure the file is publicly accessible.", <<>>)
UrlError ==
    Failure("Could not extract content from URL. Please check if the URL is accessible.", <<>>)

-----------------------------------------------------------------------------
(* Drive disabled at construction, under Spec *)

RemoteDriveCalls == {"files.get", "files.export", "files.get_media"}

\* the request reached process_document
Extracting == request.route = "analyze-document" /\ outcome # NoOutcome

\* the request is for a Drive link
DriveRequest ==
    /\ DOMAIN document_data = {"url"}
    /\ document_data.url.t = "str"
    /\ HasDriveId(document_data.url.v)

\* C13: when the credentials were absent or the setup failed at construction,
\* the Drive service is unset and stays unset; get_google_drive_content then
\* gives None without any remote call (metadata, export, download); a request
\* for a Drive link ends as the structured Drive failure, not as an exception;
\* file, generic-URL and text requests are served as with a working service.
C13_DriveDisabled ==
    /\ [](drive_log # LogInitialized => google_drive_service = "None")
    /\ [][google_drive_service = "None" => google_drive_service' = "None"]_vars
    /\ []((google_drive_service = "None" /\ Extracting) =>
            /\ \A n \in RemoteDriveCalls : ~Invoked(n)
            /\ DriveRequest =>
                 /\ Invoked("get_google_drive_content")
                 /\ outcome.extracted = PyNone
                 /\ outcome.kind = "return"
                 /\ outcome.result = DriveError
                 /\ response = Resp(400, DriveError)
            /\ ~DriveRequest =>
                 /\ ~Invoked("get_google_drive_content")
                 /\ outcome = process_document(document_data, "service", world)
                 /\ response = ExtractAndAnalyze(document_data, "service", world).resp)

C13_Witness ==
    /\ drive_log = LogNoCredentials
    /\ google_drive_service = "None"
    /\ Extracting
    /\ DriveRequest
    /\ Invoked("get_google_drive_content")
    /\ \A n \in RemoteDriveCalls : ~Invoked(n)
    /\ outcome.kind = "return"
    /\ response = Resp(400, DriveError)

====
